---- MODULE Spec2Model ----
(***************************************************************************)
(* Model of two parts of Cura:                                             *)
(*   - plugins/CuraEngineBackend/StartSliceJob.py : the job that sends the *)
(*     scene and the global settings to the engine;                        *)
(*   - cura/Settings/CuraPropertyProvider.py : the provider that decides   *)
(*     which container stack a setting key is read from.                   *)
(* SpecJob runs StartSliceJob.run on every scene of the bounded set,       *)
(* SpecGcode runs it on every start g-code of the bounded set,             *)
(* SpecProvider runs the provider's handlers under every event order,      *)
(* SpecInherit runs _determineInherit on every arrangement of containers.  *)
(***************************************************************************)
EXTENDS Integers, Sequences, FiniteSets, TLC

VARIABLES
    \* ---- StartSliceJob ----
    scene,            \* node -> node record (node 0 is the scene root)
    print_sequence,   \* value of the global "print_sequence" setting
    stack_values,     \* the global stack's definitions and values, in order
    pc,               \* position of run()
    lock,             \* number of holders of the scene lock
    acquired,         \* number of acquireLock calls made by the run
    released,         \* number of releaseLock calls made by the run
    print_order,      \* what OneAtATimeIterator yielded in this run
    object_groups,    \* the list of groups (each a list of nodes)
    gi,               \* index of the group being written
    oi,               \* index of the object being written
    slice_message,    \* the cura.proto.Slice message under construction
    created,          \* type names passed to createMessage, in order
    sent,             \* messages passed to sendMessage, in order
    sent_locked,      \* TRUE once a message was created or sent under the lock
    result,           \* Job result: "unset" or "True"
    job_log,          \* what the job logged, in order
    \* ---- CuraPropertyProvider and what it reads ----
    app_global_stack,        \* Application.getGlobalContainerStack(): a stack or "none"
    machine_extruder_count,  \* the global stack's machine_extruder_count value
    settable_per_extruder,   \* the global stack's settable_per_extruder of the bound key
    limit_to_extruder,       \* the global stack's limit_to_extruder of the bound key
    extruder_stacks,         \* number of extruder stacks ExtruderManager holds (0..n-1)
    active_extruder,         \* ExtruderManager's active extruder index
    containers,              \* stack id -> the bound key's value in each container
    guards,                  \* resolve, state and enabled of the bound key
    _key,                    \* the bound key, "" when none
    _global_container_stack, \* the stack the provider is subscribed to, or "none"
    connections,             \* stack -> number of connections of _onLimitToExtruderChanged
    _stack_id,               \* the target stack (containerStackId), "" when none
    _should_show_inherit,
    branch,                  \* exit taken by the pass that ran on the current inputs
    raised,                  \* error that escaped the last handler, "" when none
    recomputed,              \* the last handler called _determineInherit
    provider_log             \* what the provider logged, in order

jobVars == << scene, print_sequence, stack_values, pc, lock, acquired, released,
              print_order, object_groups, gi, oi, slice_message, created, sent,
              sent_locked, result, job_log >>

envVars == << app_global_stack, machine_extruder_count, settable_per_extruder,
              limit_to_extruder, extruder_stacks, active_extruder, containers,
              guards, _key >>

provVars == << _global_container_stack, connections, _stack_id,
               _should_show_inherit, branch, raised, recomputed, provider_log >>

vars == << jobVars, envVars, provVars >>

(***************************************************************************)
(* Bounds                                                                  *)
(***************************************************************************)
MaxNodes == 2
MaxExtruders == 2
MaxContainers == 2
MaxParts == 2

Nodes == 1..MaxNodes
Root == 0
Detached == -1

(***************************************************************************)
(* Python values and their conversions                                     *)
(***************************************************************************)
\* A value is tagged with its Python type; g holds the parts of a g-code text.
PyInt(i)   == [t |-> "int",   i |-> i, s |-> "",  b |-> FALSE, g |-> << >>]
PyFloat(r) == [t |-> "float", i |-> 0, s |-> r,   b |-> FALSE, g |-> << >>]
PyStr(s)   == [t |-> "str",   i |-> 0, s |-> s,   b |-> FALSE, g |-> << >>]
PyBool(b)  == [t |-> "bool",  i |-> 0, s |-> "",  b |-> b,     g |-> << >>]
PyGcode(g) == [t |-> "gcode", i |-> 0, s |-> "",  b |-> FALSE, g |-> g]

\* The parts of a g-code text: plain text without braces, a replacement field
\* "{key}", an escaped field "{{key}}" and a lone "{".
Lit(s)      == [k |-> "lit",      s |-> s]
Field(s)    == [k |-> "field",    s |-> s]
EscField(s) == [k |-> "escfield", s |-> s]
OpenBrace   == [k |-> "open",     s |-> ""]

\* The characters of one part as they stand in the text
RawPart(p) == CASE p.k = "lit"      -> p.s
                [] p.k = "field"    -> "{" \o p.s \o "}"
                [] p.k = "escfield" -> "{{" \o p.s \o "}}"
                [] p.k = "open"     -> "{"

RECURSIVE RawText(_)
RawText(g) == IF g = << >> THEN "" ELSE RawPart(Head(g)) \o RawText(Tail(g))

Digit(d) == CASE d = 0 -> "0" [] d = 1 -> "1" [] d = 2 -> "2" [] d = 3 -> "3"
              [] d = 4 -> "4" [] d = 5 -> "5" [] d = 6 -> "6" [] d = 7 -> "7"
              [] d = 8 -> "8" [] d = 9 -> "9"

RECURSIVE NatStr(_)
NatStr(n) == IF n < 10 THEN Digit(n) ELSE NatStr(n \div 10) \o Digit(n % 10)

\* str(value)
str(v) == CASE v.t = "int"   -> (IF v.i < 0 THEN "-" \o NatStr(-v.i) ELSE NatStr(v.i))
            [] v.t = "float" -> v.s
            [] v.t = "str"   -> v.s
            [] v.t = "bool"  -> (IF v.b THEN "True" ELSE "False")
            [] v.t = "gcode" -> RawText(v.g)
            [] v.t = "none"  -> "None"

\* str.encode(): the text as a bytes object
encode(s) == [bytes |-> s]

(***************************************************************************)
(* Python dicts: a sequence of [name, value] items with distinct names, in *)
(* iteration order                                                         *)
(***************************************************************************)
Item(n, v) == [name |-> n, value |-> v]

HasKey(d, n) == \E i \in 1..Len(d) : d[i].name = n

DictGet(d, n) == d[CHOOSE i \in 1..Len(d) : d[i].name = n].value

\* d[n] = v
DictSet(d, n, v) ==
    IF HasKey(d, n)
    THEN [i \in 1..Len(d) |-> IF d[i].name = n THEN Item(n, v) ELSE d[i]]
    ELSE Append(d, Item(n, v))

(***************************************************************************)
(* The scene                                                               *)
(***************************************************************************)
V1 == << <<1, 2, 3>> >>
V2 == << <<0, -1, 2>>, <<3, 0, -2>> >>

NoOffset == <<0, 0, 0>>

GroupProfile == << Item("layer_height", PyFloat("0.2")) >>
Profile1   == << Item("layer_height", PyFloat("0.3")), Item("speed", PyInt(40)) >>
Overrides1 == << Item("speed", PyInt(50)) >>
Overrides2 == << Item("infill", PyBool(TRUE)), Item("layer_height", PyFloat("0.1")) >>

\* A scene node without its place in the tree
Node(type, hasMesh, hasVerts, verts, outside, isGroup, layerData, hasProfile, profile, settings, offset) ==
    [type |-> type, hasMesh |-> hasMesh, hasVerts |-> hasVerts, verts |-> verts,
     outside |-> outside, isGroup |-> isGroup, layerData |-> layerData,
     hasProfile |-> hasProfile, profile |-> profile, settings |-> settings,
     offset |-> offset]

\* The kinds of node a scene is built from
NodeTemplates ==
    { \* a plain object
      Node("SceneNode", TRUE, TRUE, V1, FALSE, FALSE, FALSE, FALSE, << >>, << >>, NoOffset),
      \* an object with a profile and overrides that share a key
      Node("SceneNode", TRUE, TRUE, V2, FALSE, FALSE, FALSE, TRUE, Profile1, Overrides1, <<1, -1, 2>>),
      \* an object with overrides only
      Node("SceneNode", TRUE, TRUE, V1, FALSE, FALSE, FALSE, FALSE, << >>, Overrides1, <<0, 2, 0>>),
      \* an object outside the build area
      Node("SceneNode", TRUE, TRUE, V1, TRUE, FALSE, FALSE, FALSE, << >>, Overrides1, NoOffset),
      \* a group node with a profile
      Node("SceneNode", FALSE, FALSE, << >>, FALSE, TRUE, FALSE, TRUE, GroupProfile, << >>, <<1, 0, 0>>),
      \* a group node with overrides only, outside the build area
      Node("SceneNode", FALSE, FALSE, << >>, TRUE, TRUE, FALSE, FALSE, << >>, Overrides2, NoOffset),
      \* the node holding the layer data of an earlier slice
      Node("SceneNode", TRUE, TRUE, V1, FALSE, FALSE, TRUE, FALSE, << >>, << >>, NoOffset),
      \* a node of a subclass of SceneNode (platform, camera, hull)
      Node("Other", TRUE, TRUE, V1, FALSE, FALSE, FALSE, FALSE, << >>, << >>, NoOffset),
      \* a SceneNode whose mesh data has no vertices
      Node("SceneNode", TRUE, FALSE, << >>, FALSE, FALSE, FALSE, FALSE, << >>, << >>, NoOffset) }

RootNode == Node("SceneNode", FALSE, FALSE, << >>, FALSE, FALSE, FALSE, FALSE, << >>, << >>, NoOffset)

\* Every tree over the nodes 0..MaxNodes: a node hangs under the root or
\* under a node with a smaller number.
Scenes ==
    { [n \in 0..MaxNodes |->
          IF n = Root THEN [node |-> RootNode, parent |-> Detached]
                      ELSE [node |-> tp[1][n], parent |-> tp[2][n]]] :
        tp \in { q \in [Nodes -> NodeTemplates] \X [Nodes -> 0..(MaxNodes - 1)] :
                   \A n \in Nodes : q[2][n] < n } }

\* The elements of a set of numbers in ascending order
RECURSIVE Ascending(_)
Ascending(S) ==
    IF S = {} THEN << >>
    ELSE LET m == CHOOSE x \in S : \A y \in S : x <= y
         IN  <<m>> \o Ascending(S \ {m})

\* SceneNode.getChildren
getChildren(sc, n) == Ascending({m \in Nodes : sc[m].parent = n})

\* SceneNode.getAllChildren: the children, then the descendants of each child
RECURSIVE getAllChildren(_, _)
RECURSIVE AllChildrenOf(_, _)
AllChildrenOf(sc, ch) ==
    IF ch = << >> THEN << >>
    ELSE getAllChildren(sc, Head(ch)) \o AllChildrenOf(sc, Tail(ch))
getAllChildren(sc, n) == getChildren(sc, n) \o AllChildrenOf(sc, getChildren(sc, n))

\* DepthFirstIterator(root): the root, then root.getAllChildren()
DepthFirstIterator(sc) == <<Root>> \o getAllChildren(sc, Root)

\* SceneNode.getWorldTransformation: the node's transformation composed with
\* those of its ancestors (transformations are translations here)
RECURSIVE getWorldTransformation(_, _)
getWorldTransformation(sc, n) ==
    IF n < 0 THEN NoOffset
    ELSE LET up == getWorldTransformation(sc, sc[n].parent)
             o  == sc[n].node.offset
         IN  <<up[1] + o[1], up[2] + o[2], up[3] + o[3]>>

\* MeshData.getTransformed(transformation).getVertices()
getTransformed(verts, t) ==
    [i \in 1..Len(verts) |-> <<verts[i][1] + t[1], verts[i][2] + t[2], verts[i][3] + t[3]>>]

\* type(node) is SceneNode and node.getMeshData() and
\* node.getMeshData().getVertices() is not None
IsMeshNode(sc, n) ==
    sc[n].node.type = "SceneNode" /\ sc[n].node.hasMesh /\ sc[n].node.hasVerts

\* The mesh nodes of a sequence of nodes, in order
RECURSIVE MeshNodes(_, _)
MeshNodes(sc, seq) ==
    IF seq = << >> THEN << >>
    ELSE (IF IsMeshNode(sc, Head(seq)) THEN <<Head(seq)>> ELSE << >>)
         \o MeshNodes(sc, Tail(seq))

\* The sequences that hold every element of S once
RECURSIVE Orderings(_)
Orderings(S) ==
    IF S = {} THEN { << >> }
    ELSE UNION { { <<x>> \o q : q \in Orderings(S \ {x}) } : x \in S }

(***************************************************************************)
(* The global stack                                                        *)
(***************************************************************************)
PyNone == [t |-> "none", i |-> 0, s |-> "", b |-> FALSE, g |-> << >>]

\* A setting definition with the stack's current value of its key
Definition(key, value, children) == [key |-> key, value |-> value, children |-> children]

StartGcode1 == << Lit("M140 S"), Field("material_bed_temperature") >>
EndGcode1   == << Lit("M104 S0") >>
StartGcode2 == << Lit("G28 "), Field("foo"), Lit(" T"), EscField("material_print_temperature") >>
EndGcode2   == << Lit("M104 S"), Field("material_print_temperature"), Lit(" "), OpenBrace >>

Definitions(ps, start, end) ==
    << Definition("machine_settings", PyNone,
           << Definition("machine_start_gcode", PyGcode(start), << >>),
              Definition("machine_end_gcode", PyGcode(end), << >>) >>),
       Definition("material", PyNone,
           << Definition("material_bed_temperature", PyInt(60), << >>),
              Definition("material_print_temperature", PyInt(210), << >>) >>),
       Definition("print_sequence", PyStr(ps), << >>) >>

PrintSequences == {"one_at_a_time", "all_at_once"}

\* getGlobalContainerStack() returns None: no machine is active
NoStack == << >>

\* The definition containers the global stack can have
GlobalStacks(ps) == { Definitions(ps, StartGcode1, EndGcode1),
                      Definitions(ps, StartGcode2, EndGcode2) }

(***************************************************************************)
(* StartSliceJob: collecting and serialising settings                      *)
(***************************************************************************)
\* for key, value in e.items(): d[key] = value
RECURSIVE DictUpdate(_, _)
DictUpdate(d, e) ==
    IF e = << >> THEN d
    ELSE DictUpdate(DictSet(d, Head(e).name, Head(e).value), Tail(e))

RECURSIVE _getAllChildSettingValues(_)
RECURSIVE ChildSettingValues(_, _)
ChildSettingValues(acc, children) ==
    IF children = << >> THEN acc
    ELSE LET child == Head(children)
             own   == DictSet(acc, child.key, child.value)
         IN  ChildSettingValues(DictUpdate(own, _getAllChildSettingValues(child)),
                                Tail(children))
_getAllChildSettingValues(definition) == ChildSettingValues(<< >>, definition.children)

RECURSIVE AllSettingValues(_, _)
AllSettingValues(acc, definitions) ==
    IF definitions = << >> THEN acc
    ELSE LET definition == Head(definitions)
             own        == DictSet(acc, definition.key, definition.value)
         IN  AllSettingValues(DictUpdate(own, _getAllChildSettingValues(definition)),
                              Tail(definitions))
_getAllSettingValues(definitions) == AllSettingValues(<< >>, definitions)

\* "{key}" in text, for a g-code text
ContainsToken(g, key) ==
    \E i \in 1..Len(g) : g[i].k \in {"field", "escfield"} /\ g[i].s = key

\* The parts before the first lone brace, and whether there is one
Malformed(g) == \E i \in 1..Len(g) : g[i].k = "open"
FirstOpen(g) == CHOOSE i \in 1..Len(g) : g[i].k = "open" /\ \A j \in 1..(i - 1) : g[j].k # "open"
Wellformed(g) == IF Malformed(g) THEN SubSeq(g, 1, FirstOpen(g) - 1) ELSE g

\* A formatter that drops a placeholder it cannot replace
get_valueDropped(key, kwargs) ==
    IF HasKey(kwargs, key) THEN str(DictGet(kwargs, key)) ELSE ""

\* GcodeStartEndFormatter.get_value for a string key, then format_field
get_value(key, kwargs) ==
    IF HasKey(kwargs, key) THEN str(DictGet(kwargs, key)) ELSE "{" \o key \o "}"

\* Formatter.format over well-formed parts
RECURSIVE FormatParts(_, _)
FormatParts(g, kwargs) ==
    IF g = << >> THEN ""
    ELSE (CASE Head(g).k = "lit"      -> Head(g).s
            [] Head(g).k = "escfield" -> "{" \o Head(g).s \o "}"
            [] Head(g).k = "field"    -> get_value(Head(g).s, kwargs))
         \o FormatParts(Tail(g), kwargs)

\* The warnings get_value logs while the parts are formatted
RECURSIVE FormatWarnings(_, _)
FormatWarnings(g, kwargs) ==
    IF g = << >> THEN << >>
    ELSE (IF Head(g).k = "field" /\ ~HasKey(kwargs, Head(g).s)
          THEN <<"w:placeholder">> ELSE << >>)
         \o FormatWarnings(Tail(g), kwargs)

_expandGcodeTokens(key, value, settings) ==
    IF value.t = "gcode" /\ ~Malformed(value.g)
    THEN encode(FormatParts(value.g, settings))
    ELSE encode(str(value))

ExpandLog(value, settings) ==
    IF value.t # "gcode" THEN <<"w:token_replacement">>
    ELSE FormatWarnings(Wellformed(value.g), settings)
         \o (IF Malformed(value.g) THEN <<"w:token_replacement">> ELSE << >>)

\* The settings dict _sendGlobalSettings serialises
GlobalSettings(definitions) ==
    LET settings    == _getAllSettingValues(definitions)
        start_gcode == DictGet(settings, "machine_start_gcode")
        bed  == DictSet(settings, "material_bed_temp_prepend",
                        PyBool(~ContainsToken(start_gcode.g, "material_bed_temperature")))
    IN  DictSet(bed, "material_print_temp_prepend",
                PyBool(~ContainsToken(start_gcode.g, "material_print_temperature")))

IsGcodeKey(key) == key = "machine_start_gcode" \/ key = "machine_end_gcode"

\* The cura.proto.SettingList message of _sendGlobalSettings
SettingListMessage(definitions) ==
    LET settings == GlobalSettings(definitions)
    IN  [type     |-> "cura.proto.SettingList",
         settings |-> [i \in 1..Len(settings) |->
                         [name  |-> settings[i].name,
                          value |-> IF IsGcodeKey(settings[i].name)
                                    THEN _expandGcodeTokens(settings[i].name, settings[i].value, settings)
                                    ELSE encode(str(settings[i].value))]]]

RECURSIVE SettingListLog(_, _)
SettingListLog(items, settings) ==
    IF items = << >> THEN << >>
    ELSE (IF IsGcodeKey(Head(items).name) THEN ExpandLog(Head(items).value, settings) ELSE << >>)
         \o SettingListLog(Tail(items), settings)

\* _handlePerObjectSettings(node, message): the settings field of the message
\* after the call
RECURSIVE AddSettings(_, _)
AddSettings(settings, items) ==
    IF items = << >> THEN settings
    ELSE AddSettings(Append(settings, [name  |-> Head(items).name,
                                       value |-> encode(str(Head(items).value))]),
                     Tail(items))

\* A job that collects the settings in a dict before it writes them
_handlePerObjectSettingsDict(node, settings) ==
    LET profile == IF node.hasProfile THEN node.profile ELSE << >>
    IN  AddSettings(settings, DictUpdate(profile, node.settings))

_handlePerObjectSettings(node, settings) ==
    LET with_profile == IF node.hasProfile THEN AddSettings(settings, node.profile)
                                           ELSE settings
    IN  IF node.settings = << >> THEN with_profile
        ELSE AddSettings(with_profile, node.settings)

\* verts[:, [1, 2]] = verts[:, [2, 1]] ; verts[:, 1] *= -1
SwapColumns(v) == <<v[1], v[3], v[2]>>

\* A job that negates the last column instead
NegateColumn2(v) == <<v[1], v[2], -v[3]>>

NegateColumn1(v) == <<v[1], -v[2], v[3]>>
EngineVertices(verts) == [i \in 1..Len(verts) |-> NegateColumn1(SwapColumns(verts[i]))]

(***************************************************************************)
(* StartSliceJob.run                                                       *)
(***************************************************************************)
NoMessage == [type |-> "none", object_lists |-> << >>]

InitJob ==
    /\ scene \in Scenes
    /\ \/ /\ print_sequence \in PrintSequences
          /\ stack_values \in GlobalStacks(print_sequence)
       \/ /\ print_sequence = ""
          /\ stack_values = NoStack
    /\ pc = "start"
    /\ lock = 0
    /\ acquired = 0
    /\ released = 0
    /\ print_order = << >>
    /\ object_groups = << >>
    /\ gi = 0
    /\ oi = 0
    /\ slice_message = NoMessage
    /\ created = << >>
    /\ sent = << >>
    /\ sent_locked = FALSE
    /\ result = "unset"
    /\ job_log = << >>

\* The job before it is started, on an empty scene
JobIdle ==
    /\ scene = [n \in 0..MaxNodes |-> [node |-> RootNode, parent |-> Detached]]
    /\ print_sequence = "all_at_once"
    /\ stack_values = << >>
    /\ pc = "idle"
    /\ lock = 0
    /\ acquired = 0
    /\ released = 0
    /\ print_order = << >>
    /\ object_groups = << >>
    /\ gi = 0
    /\ oi = 0
    /\ slice_message = NoMessage
    /\ created = << >>
    /\ sent = << >>
    /\ sent_locked = FALSE
    /\ result = "unset"
    /\ job_log = << >>

\* The parts start and end g-code are built from
GcodeParts ==
    { Lit("G28 "), Field("material_bed_temperature"), Field("foo"),
      EscField("material_print_temperature"), OpenBrace }

\* The sequences of at most n parts
RECURSIVE PartSeqs(_)
PartSeqs(n) ==
    IF n = 0 THEN {<< >>}
    ELSE LET shorter == PartSeqs(n - 1)
         IN  shorter \cup { Append(q, part) : q \in {t \in shorter : Len(t) = n - 1},
                                              part \in GcodeParts }

\* The g-code texts of at most n parts; two braces in a row are an escaped
\* brace to the formatter, never two lone ones
GcodeTemplates(n) ==
    { g \in PartSeqs(n) :
        \A i \in 1..(Len(g) - 1) : ~(g[i].k = "open" /\ g[i + 1].k = "open") }

\* Scenes of objects under the root: the first inside or outside the build
\* area, the others outside
GcodeScenes ==
    { [n \in 0..MaxNodes |->
          IF n = Root THEN [node |-> RootNode, parent |-> Detached]
          ELSE [node   |-> Node("SceneNode", TRUE, TRUE, V1, n > 1 \/ out, FALSE, FALSE,
                                FALSE, << >>, Overrides1, NoOffset),
                parent |-> Root]] : out \in BOOLEAN }

\* The job on every start g-code of at most MaxParts parts
InitGcode ==
    /\ scene \in GcodeScenes
    /\ \/ /\ print_sequence \in PrintSequences
          /\ stack_values \in { Definitions(print_sequence, start, end) :
                                   start \in GcodeTemplates(MaxParts),
                                   end \in GcodeTemplates(1) }
       \/ /\ print_sequence = ""
          /\ stack_values = NoStack
    /\ pc = "start"
    /\ lock = 0
    /\ acquired = 0
    /\ released = 0
    /\ print_order = << >>
    /\ object_groups = << >>
    /\ gi = 0
    /\ oi = 0
    /\ slice_message = NoMessage
    /\ created = << >>
    /\ sent = << >>
    /\ sent_locked = FALSE
    /\ result = "unset"
    /\ job_log = << >>

\* self._scene.acquireLock()
AcquireLock ==
    /\ pc = "start"
    /\ lock = 0
    /\ lock' = lock + 1
    /\ acquired' = acquired + 1
    /\ pc' = "remove"
    /\ UNCHANGED << scene, print_sequence, stack_values, released, print_order,
                    object_groups, gi, oi, slice_message, created, sent,
                    sent_locked, result, job_log >>
    /\ UNCHANGED << envVars, provVars >>

\* The first node of the traversal that carries layer data, 0 if there is none
RECURSIVE FirstLayerData(_, _)
FirstLayerData(sc, seq) ==
    IF seq = << >> THEN Root
    ELSE IF sc[Head(seq)].node.layerData THEN Head(seq)
    ELSE FirstLayerData(sc, Tail(seq))

\* Remove old layer data: the first such node is taken from its parent
RemoveLayerData ==
    /\ pc = "remove"
    /\ LET node == FirstLayerData(scene, DepthFirstIterator(scene))
       IN  scene' = IF scene[node].node.layerData
                    THEN [scene EXCEPT ![node].parent = Detached]
                    ELSE scene
    /\ pc' = "build"
    /\ UNCHANGED << print_sequence, stack_values, lock, acquired, released,
                    print_order, object_groups, gi, oi, slice_message, created,
                    sent, sent_locked, result, job_log >>
    /\ UNCHANGED << envVars, provVars >>

\* OneAtATimeIterator(root): the orders it can yield, each over nodes
\* directly under the root; the empty order when no order was found
OneAtATimeIterator(sc) ==
    UNION { Orderings(S) : S \in SUBSET {n \in Nodes : sc[n].parent = Root} }

\* The body of the loop over the print order
RECURSIVE OneAtATimeGroups(_, _)
OneAtATimeGroups(sc, order) ==
    IF order = << >> THEN << >>
    ELSE LET node      == Head(order)
             children  == Append(getAllChildren(sc, node), node)
             temp_list == MeshNodes(sc, children)
         IN  (IF sc[node].node.outside \/ temp_list = << >>
              THEN << >> ELSE <<temp_list>>)
             \o OneAtATimeGroups(sc, Tail(order))

BuildOneAtATime ==
    /\ pc = "build"
    /\ print_sequence = "one_at_a_time"
    /\ \E order \in OneAtATimeIterator(scene) :
         /\ print_order' = order
         /\ object_groups' = OneAtATimeGroups(scene, order)
    /\ job_log' = IF object_groups' = << >> THEN Append(job_log, "w:no_objects")
                                            ELSE job_log
    /\ pc' = "release"
    /\ UNCHANGED << scene, print_sequence, stack_values, lock, acquired, released,
                    gi, oi, slice_message, created, sent, sent_locked, result >>
    /\ UNCHANGED << envVars, provVars >>

\* The mesh nodes of the traversal that are not outside the build area
RECURSIVE InsideMeshNodes(_, _)
InsideMeshNodes(sc, seq) ==
    IF seq = << >> THEN << >>
    ELSE (IF IsMeshNode(sc, Head(seq)) /\ ~sc[Head(seq)].node.outside
          THEN <<Head(seq)>> ELSE << >>)
         \o InsideMeshNodes(sc, Tail(seq))

\* A job that does not look at _outside_buildarea in this mode
BuildAllAtOnceUnfiltered ==
    /\ pc = "build"
    /\ stack_values # NoStack
    /\ print_sequence # "one_at_a_time"
    /\ LET temp_list == MeshNodes(scene, DepthFirstIterator(scene))
       IN  object_groups' = IF temp_list # << >> THEN <<temp_list>> ELSE << >>
    /\ pc' = "release"
    /\ UNCHANGED << scene, print_sequence, stack_values, lock, acquired, released,
                    print_order, gi, oi, slice_message, created, sent,
                    sent_locked, result, job_log >>
    /\ UNCHANGED << envVars, provVars >>

BuildAllAtOnce ==
    /\ pc = "build"
    /\ stack_values # NoStack
    /\ print_sequence # "one_at_a_time"
    /\ LET temp_list == InsideMeshNodes(scene, DepthFirstIterator(scene))
       IN  object_groups' = IF temp_list # << >> THEN <<temp_list>> ELSE << >>
    /\ pc' = "release"
    /\ UNCHANGED << scene, print_sequence, stack_values, lock, acquired, released,
                    print_order, gi, oi, slice_message, created, sent,
                    sent_locked, result, job_log >>
    /\ UNCHANGED << envVars, provVars >>

\* Line 54 without a global stack: getProperty is called on None, the
\* AttributeError ends run() with the lock still held
BuildRaises ==
    /\ pc = "build"
    /\ stack_values = NoStack
    /\ pc' = "failed"
    /\ UNCHANGED << scene, print_sequence, stack_values, lock, acquired, released,
                    print_order, object_groups, gi, oi, slice_message, created,
                    sent, sent_locked, result, job_log >>
    /\ UNCHANGED << envVars, provVars >>

\* A job that goes on without releasing the lock
ReleaseLockSkipped ==
    /\ pc = "release"
    /\ pc' = "check"
    /\ UNCHANGED << scene, print_sequence, stack_values, lock, acquired, released,
                    print_order, object_groups, gi, oi, slice_message, created,
                    sent, sent_locked, result, job_log >>
    /\ UNCHANGED << envVars, provVars >>

\* self._scene.releaseLock()
ReleaseLock ==
    /\ pc = "release"
    /\ lock' = lock - 1
    /\ released' = released + 1
    /\ pc' = "check"
    /\ UNCHANGED << scene, print_sequence, stack_values, acquired, print_order,
                    object_groups, gi, oi, slice_message, created, sent,
                    sent_locked, result, job_log >>
    /\ UNCHANGED << envVars, provVars >>

\* if not object_groups: return
ReturnNoGroups ==
    /\ pc = "check"
    /\ object_groups = << >>
    /\ pc' = "done"
    /\ UNCHANGED << scene, print_sequence, stack_values, lock, acquired, released,
                    print_order, object_groups, gi, oi, slice_message, created,
                    sent, sent_locked, result, job_log >>
    /\ UNCHANGED << envVars, provVars >>

\* A job without the early return for an empty list of groups
_sendGlobalSettingsAlways ==
    /\ pc = "check"
    /\ created' = Append(created, "cura.proto.SettingList")
    /\ sent' = Append(sent, SettingListMessage(stack_values))
    /\ sent_locked' = (sent_locked \/ lock > 0)
    /\ job_log' = job_log \o SettingListLog(GlobalSettings(stack_values),
                                            GlobalSettings(stack_values))
    /\ pc' = "compose"
    /\ UNCHANGED << scene, print_sequence, stack_values, lock, acquired, released,
                    print_order, object_groups, gi, oi, slice_message, result >>
    /\ UNCHANGED << envVars, provVars >>

\* self._sendGlobalSettings()
_sendGlobalSettings ==
    /\ pc = "check"
    /\ object_groups # << >>
    /\ created' = Append(created, "cura.proto.SettingList")
    /\ sent' = Append(sent, SettingListMessage(stack_values))
    /\ sent_locked' = (sent_locked \/ lock > 0)
    /\ job_log' = job_log \o SettingListLog(GlobalSettings(stack_values),
                                            GlobalSettings(stack_values))
    /\ pc' = "compose"
    /\ UNCHANGED << scene, print_sequence, stack_values, lock, acquired, released,
                    print_order, object_groups, gi, oi, slice_message, result >>
    /\ UNCHANGED << envVars, provVars >>

\* slice_message = self._socket.createMessage("cura.proto.Slice")
CreateSliceMessage ==
    /\ pc = "compose"
    /\ created' = Append(created, "cura.proto.Slice")
    /\ slice_message' = [type |-> "cura.proto.Slice", object_lists |-> << >>]
    /\ sent_locked' = (sent_locked \/ lock > 0)
    /\ gi' = 1
    /\ pc' = "group"
    /\ UNCHANGED << scene, print_sequence, stack_values, lock, acquired, released,
                    print_order, object_groups, oi, sent, result, job_log >>
    /\ UNCHANGED << envVars, provVars >>

\* A job that never writes the settings of a group node
AddGroupWithoutSettings ==
    /\ pc = "group"
    /\ slice_message' = [slice_message EXCEPT
                            !.object_lists = Append(@, [settings |-> << >>, objects |-> << >>])]
    /\ oi' = 1
    /\ pc' = "object"
    /\ UNCHANGED << scene, print_sequence, stack_values, lock, acquired, released,
                    print_order, object_groups, gi, created, sent, sent_locked,
                    result, job_log >>
    /\ UNCHANGED << envVars, provVars >>

\* The head of the loop over the groups: a new object_lists entry, with the
\* settings of the parent of the first object when that parent is a group
AddGroup ==
    /\ pc = "group"
    /\ LET group  == object_groups[gi]
           parent == scene[scene[group[1]].parent].node
           group_message ==
               [settings |-> IF parent.isGroup
                             THEN _handlePerObjectSettings(parent, << >>)
                             ELSE << >>,
                objects  |-> << >>]
       IN  slice_message' = [slice_message EXCEPT
                               !.object_lists = Append(@, group_message)]
    /\ oi' = 1
    /\ pc' = "object"
    /\ UNCHANGED << scene, print_sequence, stack_values, lock, acquired, released,
                    print_order, object_groups, gi, created, sent, sent_locked,
                    result, job_log >>
    /\ UNCHANGED << envVars, provVars >>

\* The body of the loop over the objects of a group, up to Job.yieldThread()
AddObject ==
    /\ pc = "object"
    /\ LET group          == object_groups[gi]
           current_object == group[oi]
           mesh_data == getTransformed(scene[current_object].node.verts,
                                       getWorldTransformation(scene, current_object))
           obj == [id       |-> current_object,
                   vertices |-> EngineVertices(mesh_data),
                   settings |-> _handlePerObjectSettings(scene[current_object].node, << >>)]
       IN  /\ slice_message' = [slice_message EXCEPT
                                  !.object_lists[gi].objects = Append(@, obj)]
           /\ IF oi < Len(group)
              THEN /\ oi' = oi + 1
                   /\ UNCHANGED << gi, pc >>
              ELSE /\ oi' = 0
                   /\ gi' = gi + 1
                   /\ pc' = IF gi < Len(object_groups) THEN "group" ELSE "send"
    /\ UNCHANGED << scene, print_sequence, stack_values, lock, acquired, released,
                    print_order, object_groups, created, sent, sent_locked,
                    result, job_log >>
    /\ UNCHANGED << envVars, provVars >>

\* A job that reports the message as sent without sending it
SendSliceMessageDropped ==
    /\ pc = "send"
    /\ job_log' = job_log \o <<"d:sending", "d:sent">>
    /\ pc' = "result"
    /\ UNCHANGED << scene, print_sequence, stack_values, lock, acquired, released,
                    print_order, object_groups, gi, oi, slice_message, created,
                    sent, sent_locked, result >>
    /\ UNCHANGED << envVars, provVars >>

\* self._socket.sendMessage(slice_message)
SendSliceMessage ==
    /\ pc = "send"
    /\ sent' = Append(sent, slice_message)
    /\ sent_locked' = (sent_locked \/ lock > 0)
    /\ job_log' = job_log \o <<"d:sending", "d:sent">>
    /\ pc' = "result"
    /\ UNCHANGED << scene, print_sequence, stack_values, lock, acquired, released,
                    print_order, object_groups, gi, oi, slice_message, created,
                    result >>
    /\ UNCHANGED << envVars, provVars >>

\* self.setResult(True)
SetResult ==
    /\ pc = "result"
    /\ result' = "True"
    /\ pc' = "done"
    /\ UNCHANGED << scene, print_sequence, stack_values, lock, acquired, released,
                    print_order, object_groups, gi, oi, slice_message, created,
                    sent, sent_locked, job_log >>
    /\ UNCHANGED << envVars, provVars >>

NextJob ==
    \/ AcquireLock
    \/ RemoveLayerData
    \/ BuildOneAtATime
    \/ BuildAllAtOnce
    \/ BuildRaises
    \/ ReleaseLock
    \/ ReturnNoGroups
    \/ _sendGlobalSettings
    \/ CreateSliceMessage
    \/ AddGroup
    \/ AddObject
    \/ SendSliceMessage
    \/ SetResult


(***************************************************************************)
(* Claims about StartSliceJob                                              *)
(***************************************************************************)
\* The object entries written so far, as <<group index, object index>>
Written ==
    { e \in (1..Len(slice_message.object_lists)) \X (1..MaxNodes) :
        e[2] <= Len(slice_message.object_lists[e[1]].objects) }

EntryOf(e) == slice_message.object_lists[e[1]].objects[e[2]]
NodeOf(e)  == object_groups[e[1]][e[2]]

\* The vertices of a node after its world transformation
WorldVertices(n) ==
    getTransformed(scene[n].node.verts, getWorldTransformation(scene, n))

\* The name/value pairs of a dict as they are written to a message
Pairs(items) ==
    [i \in 1..Len(items) |-> [name |-> items[i].name, value |-> encode(str(items[i].value))]]

ProfilePairs(node) == IF node.hasProfile THEN Pairs(node.profile) ELSE << >>

\* C1 as stated: every world-transformed vertex (x, y, z) of every object is
\* written as (x, z, -y), same order and count.
C1_Original ==
    \A e \in Written :
        LET w == WorldVertices(NodeOf(e))
            v == EntryOf(e).vertices
        IN  /\ Len(v) = Len(w)
            /\ \A i \in 1..Len(w) : v[i] = <<w[i][1], w[i][3], -w[i][2]>>

\* C1 amended: every world-transformed vertex (x, y, z) of every object is
\* written as (x, -z, y), same order and count.
C1_VertexTransform ==
    \A e \in Written :
        LET w == WorldVertices(NodeOf(e))
            v == EntryOf(e).vertices
        IN  /\ Len(v) = Len(w)
            /\ \A i \in 1..Len(w) : v[i] = <<w[i][1], -w[i][3], w[i][2]>>

C1_Witness ==
    /\ pc = "done"
    /\ \E e \in Written :
         /\ Len(EntryOf(e).vertices) = 2
         /\ getWorldTransformation(scene, NodeOf(e)) # NoOffset
         /\ EntryOf(e).vertices[1] # WorldVertices(NodeOf(e))[1]

\* C4: no message is created or sent while the scene lock is held; the lock
\* is acquired once, held only while stale data is removed and the groups are
\* built (and from there on in a run that an exception ended there, which
\* sends nothing), and is free before _sendGlobalSettings and every
\* sendMessage.
C4_NoSendUnderLock ==
    /\ ~sent_locked
    /\ acquired <= 1
    /\ lock > 0 => /\ pc \in {"remove", "build", "release", "failed"}
                   /\ created = << >>
                   /\ sent = << >>
    /\ pc \in {"check", "compose", "group", "object", "send", "result"} =>
           (lock = 0 /\ acquired = 1 /\ released = 1)

C4_Witness ==
    /\ pc = "done"
    /\ Len(sent) = 2
    /\ acquired = 1
    /\ released = 1
    /\ lock = 0

SentTypes == [i \in 1..Len(sent) |-> sent[i].type]

\* C5: a run with at least one group sends exactly one SettingList message and
\* then exactly one Slice message, and the result is success only once the
\* Slice message has been sent.
C5_SendOrder ==
    /\ SentTypes \in { << >>, <<"cura.proto.SettingList">>,
                       <<"cura.proto.SettingList", "cura.proto.Slice">> }
    /\ (pc = "done" /\ object_groups # << >>) =>
           SentTypes = <<"cura.proto.SettingList", "cura.proto.Slice">>
    /\ (pc \in {"compose", "group", "object", "send"}) =>
           SentTypes = <<"cura.proto.SettingList">>
    /\ result = "True" =>
           (SentTypes = <<"cura.proto.SettingList", "cura.proto.Slice">>
            /\ sent[2] = slice_message)

C5_Witness ==
    /\ pc = "done"
    /\ Len(object_groups) >= 2
    /\ result = "True"
    /\ SentTypes = <<"cura.proto.SettingList", "cura.proto.Slice">>

\* C6: a run that read a print sequence from the global stack and built no
\* group ends as a no-op: no message is created or sent, the lock has been
\* released, the result is left unset, and the run goes from the check
\* straight to its end.
C6_NoGroupsNoOp ==
    (object_groups = << >> /\ stack_values # NoStack
                           /\ pc \notin {"start", "remove", "build", "release"}) =>
        /\ pc \in {"check", "done"}
        /\ created = << >>
        /\ sent = << >>
        /\ slice_message = NoMessage
        /\ lock = 0
        /\ released = 1
        /\ result = "unset"

C6_Witness ==
    /\ pc = "done"
    /\ object_groups = << >>
    /\ print_sequence = "one_at_a_time"
    /\ \E n \in Nodes : IsMeshNode(scene, n) /\ scene[n].parent = Root
    /\ released = 1

\* The node a group's settings are taken from
GroupParent(k) == scene[scene[object_groups[k][1]].parent].node

\* The group/object entries of C7: the first object's parent is a group node
\* with a profile, the object has overrides of its own
C7_Case(e) ==
    /\ GroupParent(e[1]).isGroup
    /\ GroupParent(e[1]).hasProfile
    /\ GroupParent(e[1]).profile # << >>
    /\ scene[NodeOf(e)].node.settings # << >>

\* s is t with elements left out
RECURSIVE IsSubsequence(_, _)
IsSubsequence(s, t) ==
    IF s = << >> THEN TRUE
    ELSE IF t = << >> THEN FALSE
    ELSE IF Head(s) = Head(t) THEN IsSubsequence(Tail(s), Tail(t))
    ELSE IsSubsequence(s, Tail(t))

\* C7 as stated: the object entry's own settings list holds the group
\* profile's pairs followed by the object's override pairs.
C7_Original ==
    \A e \in Written :
        C7_Case(e) =>
            IsSubsequence(Pairs(GroupParent(e[1]).profile) \o Pairs(scene[NodeOf(e)].node.settings),
                          EntryOf(e).settings)

\* C7 amended: the group profile's pairs are in the settings list of the
\* group's object_lists entry (followed by the group node's own overrides),
\* and the object entry's settings list holds no pair of the group: it ends
\* with the object's override pairs and has only the object's profile pairs
\* before them.
C7_GroupSettings ==
    /\ \A k \in 1..Len(slice_message.object_lists) :
         slice_message.object_lists[k].settings =
             IF GroupParent(k).isGroup
             THEN ProfilePairs(GroupParent(k)) \o Pairs(GroupParent(k).settings)
             ELSE << >>
    /\ \A e \in Written :
         C7_Case(e) =>
             /\ IsSubsequence(Pairs(GroupParent(e[1]).profile),
                              slice_message.object_lists[e[1]].settings)
             /\ \A i \in 1..Len(EntryOf(e).settings) :
                    \/ \E j \in 1..Len(scene[NodeOf(e)].node.profile) :
                          EntryOf(e).settings[i] = Pairs(scene[NodeOf(e)].node.profile)[j]
                    \/ \E j \in 1..Len(scene[NodeOf(e)].node.settings) :
                          EntryOf(e).settings[i] = Pairs(scene[NodeOf(e)].node.settings)[j]

C7_Witness ==
    /\ pc = "done"
    /\ \E e \in Written :
         /\ C7_Case(e)
         /\ slice_message.object_lists[e[1]].settings = Pairs(GroupProfile)
         /\ EntryOf(e).settings = Pairs(Overrides1)

\* The names two dicts share
SharedNames(d, e) == { d[i].name : i \in 1..Len(d) } \cap { e[i].name : i \in 1..Len(e) }

\* C8 as stated: profile values first, then the overrides, and a key that is
\* in both is carried once, with the override's value.
C8_Original ==
    \A e \in Written :
        LET node == scene[NodeOf(e)].node
            out  == EntryOf(e).settings
        IN  /\ \A i, j \in 1..Len(out) : out[i].name = out[j].name => i = j
            /\ \A i \in 1..Len(node.settings) :
                   \E j \in 1..Len(out) : out[j] = Pairs(node.settings)[i]

\* C8 amended: profile values first, then the overrides, every item as one
\* entry; a key that is in both is carried twice, the profile's entry before
\* the override's, and nothing is overwritten.
C8_ProfileThenOverrides ==
    \A e \in Written :
        LET node == scene[NodeOf(e)].node
            out  == EntryOf(e).settings
            np   == Len(ProfilePairs(node))
        IN  /\ Len(out) = np + Len(node.settings)
            /\ \A i \in 1..np : out[i] = ProfilePairs(node)[i]
            /\ \A i \in 1..Len(node.settings) : out[np + i] = Pairs(node.settings)[i]
            /\ node.hasProfile =>
                 \A name \in SharedNames(node.profile, node.settings) :
                     \E i, j \in 1..Len(out) :
                         /\ i < j
                         /\ out[i].name = name /\ out[j].name = name
                         /\ out[i].value = encode(str(DictGet(node.profile, name)))
                         /\ out[j].value = encode(str(DictGet(node.settings, name)))

C8_Witness ==
    /\ pc = "done"
    /\ \E e \in Written :
         LET out == EntryOf(e).settings
         IN  \E i, j \in 1..Len(out) :
                 i < j /\ out[i].name = out[j].name /\ out[i].value # out[j].value

\* The value written for a key of the SettingList message
SentSetting(key) ==
    LET settings == sent[1].settings
    IN  settings[CHOOSE i \in 1..Len(settings) : settings[i].name = key].value.bytes

\* The g-code text of a key and the settings it is expanded with
TemplateOf(key) == DictGet(GlobalSettings(stack_values), key).g

\* The text with every {key} of a known key replaced by the string of its
\* value; escaped is what an escaped field turns into
RECURSIVE Replaced(_, _, _)
Replaced(g, settings, escaped) ==
    IF g = << >> THEN ""
    ELSE LET part == Head(g)
         IN  (IF part.k = "field" /\ HasKey(settings, part.s)
              THEN str(DictGet(settings, part.s))
              ELSE IF part.k = "escfield" /\ escaped
              THEN "{" \o part.s \o "}"
              ELSE RawPart(part))
             \o Replaced(Tail(g), settings, escaped)

UnknownToken(g, settings) ==
    \E i \in 1..Len(g) : g[i].k = "field" /\ ~HasKey(settings, g[i].s)

Logged(tag) == \E i \in 1..Len(job_log) : job_log[i] = tag

GcodeKeys == {"machine_start_gcode", "machine_end_gcode"}

Built == pc \in {"release", "check", "compose", "group", "object", "send", "result", "done"}

\* m is n or one of its descendants
RECURSIVE IsUnder(_, _, _)
IsUnder(sc, m, n) ==
    IF m = n THEN TRUE
    ELSE IF m <= Root THEN FALSE
    ELSE IsUnder(sc, sc[m].parent, n)

Elements(seq) == { seq[i] : i \in 1..Len(seq) }

NoRepeats(seq) == \A i, j \in 1..Len(seq) : seq[i] = seq[j] => i = j

\* The mesh-bearing nodes among n and its descendants
MeshUnder(n) == { m \in Nodes : IsMeshNode(scene, m) /\ IsUnder(scene, m, n) }

Flagged(n) == scene[n].node.outside

\* The yielded nodes that are to become a group, in the order they were
\* yielded
Eligible ==
    LET Test(n) == ~Flagged(n) /\ MeshUnder(n) # {}
    IN  SelectSeq(print_order, Test)

\* In "one at a time" mode the groups are those of the eligible nodes, in
\* the iterator's order, each with the mesh-bearing nodes under its node
OneAtATimeClause ==
    print_sequence = "one_at_a_time" =>
        /\ Len(object_groups) = Len(Eligible)
        /\ \A k \in 1..Len(object_groups) :
              /\ Elements(object_groups[k]) = MeshUnder(Eligible[k])
              /\ NoRepeats(object_groups[k])

\* In any other mode the mesh-bearing nodes under the root that are not
\* flagged are the one group, in the order of the depth-first traversal
AllAtOnceClause ==
    print_sequence # "one_at_a_time" =>
        LET order  == DepthFirstIterator(scene)
            inside == { m \in MeshUnder(Root) : ~Flagged(m) }
            Place(m) == CHOOSE i \in 1..Len(order) : order[i] = m
        IN  IF inside = {} THEN object_groups = << >>
            ELSE /\ Len(object_groups) = 1
                 /\ Elements(object_groups[1]) = inside
                 /\ \A i, j \in 1..Len(object_groups[1]) :
                       i < j => Place(object_groups[1][i]) < Place(object_groups[1][j])

\* C18 as stated: the groups are built as the two clauses say, no group is
\* empty and no group holds an object flagged outside the build area.
C18_Original ==
    Built =>
        /\ OneAtATimeClause
        /\ AllAtOnceClause
        /\ \A k \in 1..Len(object_groups) :
              /\ object_groups[k] # << >>
              /\ \A i \in 1..Len(object_groups[k]) : ~Flagged(object_groups[k][i])

\* C18: the groups are built as the two clauses say and no group is empty;
\* in "one at a time" mode the node a group was built for is not flagged,
\* in any other mode no object of the group is.
C18_Groups ==
    Built =>
        /\ OneAtATimeClause
        /\ AllAtOnceClause
        /\ \A k \in 1..Len(object_groups) :
              /\ object_groups[k] # << >>
              /\ IF print_sequence = "one_at_a_time"
                 THEN ~Flagged(Eligible[k])
                 ELSE \A i \in 1..Len(object_groups[k]) : ~Flagged(object_groups[k][i])

C18_Witness ==
    /\ pc = "done"
    /\ print_sequence = "one_at_a_time"
    /\ print_order = <<1>>
    /\ scene[1].node.isGroup
    /\ scene[2].parent = 1
    /\ Flagged(2)
    /\ object_groups = << <<2>> >>
    /\ result = "True"

\* C19: a run that has acquired the scene lock and has come to its end, by
\* returning or by an exception, has released the lock exactly once.
C19_LockReleasedOnce ==
    (pc \in {"done", "failed"} /\ acquired > 0) =>
        /\ released = 1
        /\ lock = 0

(***************************************************************************)
(* What CuraPropertyProvider reads                                         *)
(***************************************************************************)
Keys == {"k1", "k2"}

\* The values of machine_extruder_count: one extruder or several
ExtruderCounts == {1, 2}
GlobalStackIds == {"g1", "g2"}

\* The values limit_to_extruder can have: None, an index as a number or as
\* a string; the largest index has no stack when an extruder stack is missing
Limits == {PyNone, PyStr("-1"), PyInt(0)} \cup { PyStr(NatStr(i)) : i \in 1..(MaxExtruders - 1) }

\* int(value), for a number or the string of a number
int(v) == IF v.t = "int" THEN v.i
          ELSE CHOOSE i \in (-9)..9 : str(PyInt(i)) = v.s

ExtruderId(i) == "extruder" \o NatStr(i)

StackIds == {"global"} \cup { ExtruderId(i) : i \in 0..(MaxExtruders - 1) }

\* ExtruderManager.getExtruderStack(index): the id of the extruder stack with
\* that index, "" when there is none
getExtruderStack(index, nstacks) ==
    IF \E i \in 0..(nstacks - 1) : str(PyInt(i)) = str(index)
    THEN ExtruderId(int(index)) ELSE ""

\* ExtruderManager.activeExtruderStackId
activeExtruderStackId(active) == ExtruderId(active)

\* ContainerStack.getNextStack, by stack id
getNextStack(stack_id) == IF stack_id = "global" THEN "" ELSE "global"

\* What a container holds for the bound key: nothing, a literal, a function
\* that uses a setting key, a function whose used keys are no setting keys,
\* or the container has no getProperty
ContainerKinds == {"none", "lit", "fn", "fnenum", "noattr"}

InstanceStates == {"Default", "Calculated", "User"}

Guards(resolve, state, enabled) == [resolve |-> resolve, state |-> state, enabled |-> enabled]

(***************************************************************************)
(* CuraPropertyProvider                                                    *)
(***************************************************************************)
\* The containers of the stack and of every next stack, in order
RECURSIVE AllContainers(_, _)
AllContainers(stack_id, conts) ==
    IF stack_id = "" THEN << >>
    ELSE conts[stack_id] \o AllContainers(getNextStack(stack_id), conts)

\* A provider that takes every SettingFunction for one that uses settings
IsSettingFunctionAnyKeys(kind) == kind \in {"fn", "fnenum"}

\* isinstance(value, SettingFunction) with a used key that is a setting key
IsSettingFunction(kind) == kind = "fn"

\* The loop of _determineInherit over the containers
RECURSIVE InheritWalk(_, _, _)
InheritWalk(seq, has_setting_function, has_non_function_value) ==
    IF seq = << >> THEN has_setting_function /\ has_non_function_value
    ELSE LET kind == Head(seq)
         IN  IF kind = "noattr" THEN
                 InheritWalk(Tail(seq), has_setting_function, has_non_function_value)
             ELSE IF kind # "none" /\ ~IsSettingFunction(kind) THEN
                 InheritWalk(Tail(seq), FALSE, TRUE)
             ELSE IF kind # "none" THEN
                 has_non_function_value
             ELSE IF has_setting_function THEN
                 has_setting_function /\ has_non_function_value
             ELSE
                 InheritWalk(Tail(seq), has_setting_function, has_non_function_value)

\* A provider that does not look at the state of the setting
_determineInheritAnyState(stack_id, conts, grd) ==
    IF grd.resolve THEN FALSE
    ELSE IF ~grd.enabled THEN FALSE
    ELSE IF conts[stack_id][1] \in {"fn", "fnenum"} THEN FALSE
    ELSE InheritWalk(AllContainers(stack_id, conts), FALSE, FALSE)

_determineInherit(stack_id, conts, grd) ==
    IF grd.resolve THEN FALSE
    ELSE IF grd.state # "User" THEN FALSE
    ELSE IF ~grd.enabled THEN FALSE
    ELSE IF conts[stack_id][1] \in {"fn", "fnenum"} THEN FALSE
    ELSE InheritWalk(AllContainers(stack_id, conts), FALSE, FALSE)

\* The provider's own state as one record
Provider ==
    [gcs |-> _global_container_stack, conn |-> connections, stack_id |-> _stack_id,
     inherit |-> _should_show_inherit, branch |-> branch, raised |-> raised,
     recomputed |-> recomputed, log |-> provider_log]

\* The provider as __init__ leaves it
FreshProvider ==
    [gcs |-> "none", conn |-> [s \in GlobalStackIds |-> 0], stack_id |-> "",
     inherit |-> FALSE, branch |-> "none", raised |-> "", recomputed |-> FALSE,
     log |-> << >>]

\* Line 120 is reached and the top container has no getProperty
TopHasNoProperty(stack_id, conts, grd) ==
    /\ ~grd.resolve
    /\ grd.state = "User"
    /\ grd.enabled
    /\ conts[stack_id][1] = "noattr"

\* A provider whose _updateShouldShowInherit does nothing
_updateShouldShowInheritSkipped(p, conts, grd) == p

\* self._stack is None until a target has been set
_updateShouldShowInherit(p, conts, grd) ==
    IF p.stack_id = "" \/ TopHasNoProperty(p.stack_id, conts, grd)
    THEN [p EXCEPT !.raised = "AttributeError"]
    ELSE [p EXCEPT !.inherit = _determineInherit(p.stack_id, conts, grd),
                   !.recomputed = TRUE]

\* setContainerStackId
setContainerStackId(p, stack_id) == [p EXCEPT !.stack_id = stack_id]

\* A provider that connects to the new global stack and stays connected to
\* the old one
ResubscribeKeepingOld(p, g) ==
    IF g # p.gcs
    THEN [p EXCEPT !.conn = [s \in GlobalStackIds |->
                                p.conn[s] + (IF s = g THEN 1 ELSE 0)],
                   !.gcs = g]
    ELSE p

\* Lines 54-58: the subscription moves to the new global stack
Resubscribe(p, g) ==
    IF g # p.gcs
    THEN [p EXCEPT !.conn = [s \in GlobalStackIds |->
                                (IF s = p.gcs THEN p.conn[s] - 1 ELSE p.conn[s])
                                + (IF s = g THEN 1 ELSE 0)],
                   !.gcs = g]
    ELSE p

\* A provider that takes a count of one for several extruders
SingleExtruderBelowOne(count) == count < 1

SingleExtruder(count) == count <= 1

\* A provider that tests the flag the wrong way round
NotSettableInverted(settable) == settable

NotSettable(settable) == ~settable

\* A provider that takes extruder 0 for "no limit"
LimitIsSetAboveZero(limit) == limit.t # "none" /\ int(limit) > 0

LimitIsSet(limit) == limit.t # "none" /\ int(limit) >= 0

\* Logger is not among the module's imports: the call raises NameError
\* before anything is logged
LogMissingExtruder(p) == [p EXCEPT !.raised = "NameError"]

_updateStack(p, key, g, count, settable, limit, nstacks, active, conts, grd) ==
    LET p0 == [p EXCEPT !.raised = "", !.recomputed = FALSE]
    IN  IF key = "" THEN [p0 EXCEPT !.branch = "nokey"]
        ELSE IF g = "none" THEN [p0 EXCEPT !.branch = "noglobal"]
        ELSE LET p1 == Resubscribe(p0, g)
             IN  IF SingleExtruder(count) THEN
                     [setContainerStackId(p1, "global") EXCEPT !.branch = "single"]
                 ELSE IF NotSettable(settable) THEN
                     [setContainerStackId(p1, "global") EXCEPT !.branch = "notsettable"]
                 ELSE IF LimitIsSet(limit) THEN
                     LET extruder_stack == getExtruderStack(limit, nstacks)
                     IN  IF extruder_stack # ""
                         THEN [setContainerStackId(p1, extruder_stack) EXCEPT !.branch = "limit"]
                         ELSE [LogMissingExtruder(p1) EXCEPT !.branch = "missing"]
                 ELSE
                     _updateShouldShowInherit(
                         [setContainerStackId(p1, activeExtruderStackId(active))
                             EXCEPT !.branch = "active"],
                         conts, grd)

\* The provider's variables take the values of the record
Becomes(p) ==
    /\ _global_container_stack' = p.gcs
    /\ connections' = p.conn
    /\ _stack_id' = p.stack_id
    /\ _should_show_inherit' = p.inherit
    /\ branch' = p.branch
    /\ raised' = p.raised
    /\ recomputed' = p.recomputed
    /\ provider_log' = p.log

\* _updateStack on the inputs as they are after the step
RunUpdateStack ==
    Becomes(_updateStack(Provider, _key', app_global_stack', machine_extruder_count',
                         settable_per_extruder', limit_to_extruder', extruder_stacks',
                         active_extruder', containers', guards'))

(***************************************************************************)
(* The provider's handlers and the events that reach them                  *)
(***************************************************************************)
\* The container contents and guards the provider is run on: one container
\* in the global stack, a literal in every extruder stack
ProviderKinds == {"lit", "fn"}
ProviderContainers ==
    { [s \in StackIds |-> IF s = "global" THEN <<a>> ELSE <<"lit">>] : a \in ProviderKinds }
ProviderGuards == { Guards(FALSE, "User", TRUE), Guards(FALSE, "Default", TRUE) }

InitProvider ==
    /\ app_global_stack \in GlobalStackIds \cup {"none"}
    /\ _key = ""
    /\ machine_extruder_count \in ExtruderCounts
    /\ settable_per_extruder = FALSE
    /\ limit_to_extruder = PyNone
    /\ extruder_stacks \in 1..MaxExtruders
    /\ active_extruder \in 0..(extruder_stacks - 1)
    /\ containers \in ProviderContainers
    /\ guards \in ProviderGuards
    /\ _global_container_stack = "none"
    /\ connections = [s \in GlobalStackIds |-> 0]
    /\ _stack_id = ""
    /\ _should_show_inherit = FALSE
    /\ branch = "none"
    /\ raised = ""
    /\ recomputed = FALSE
    /\ provider_log = << >>

\* The provider before it is constructed
ProviderIdle ==
    /\ app_global_stack = "none"
    /\ _key = ""
    /\ machine_extruder_count = 1
    /\ settable_per_extruder = FALSE
    /\ limit_to_extruder = PyNone
    /\ extruder_stacks = 1
    /\ active_extruder = 0
    /\ containers = [s \in StackIds |-> <<"lit">>]
    /\ guards = Guards(FALSE, "User", TRUE)
    /\ _global_container_stack = "none"
    /\ connections = [s \in GlobalStackIds |-> 0]
    /\ _stack_id = ""
    /\ _should_show_inherit = FALSE
    /\ branch = "none"
    /\ raised = ""
    /\ recomputed = FALSE
    /\ provider_log = << >>

\* Application.globalContainerStackChanged -> _updateStack
GlobalContainerStackChanged ==
    /\ \E g \in (GlobalStackIds \cup {"none"}) \ {app_global_stack} :
         app_global_stack' = g
    /\ UNCHANGED << machine_extruder_count, settable_per_extruder, limit_to_extruder,
                    extruder_stacks, active_extruder, containers, guards, _key >>
    /\ RunUpdateStack
    /\ UNCHANGED jobVars

\* A provider that never connected _updateStack to activeExtruderChanged
ActiveExtruderChangedUnconnected ==
    /\ \E active \in (0..(extruder_stacks - 1)) \ {active_extruder} :
         active_extruder' = active
    /\ UNCHANGED << app_global_stack, machine_extruder_count, settable_per_extruder,
                    limit_to_extruder, extruder_stacks, containers, guards, _key >>
    /\ UNCHANGED provVars
    /\ UNCHANGED jobVars

\* ExtruderManager.activeExtruderChanged -> _updateStack
ActiveExtruderChanged ==
    /\ \E active \in (0..(extruder_stacks - 1)) \ {active_extruder} :
         active_extruder' = active
    /\ UNCHANGED << app_global_stack, machine_extruder_count, settable_per_extruder,
                    limit_to_extruder, extruder_stacks, containers, guards, _key >>
    /\ RunUpdateStack
    /\ UNCHANGED jobVars

\* setKey: keyChanged -> _updateStack
KeyChanged ==
    /\ \E key \in (Keys \cup {""}) \ {_key} :
         /\ _key' = key
         /\ settable_per_extruder' = IF key = "" THEN FALSE ELSE settable_per_extruder
         /\ limit_to_extruder' = IF key = "" THEN PyNone ELSE limit_to_extruder
    /\ UNCHANGED << app_global_stack, machine_extruder_count, extruder_stacks,
                    active_extruder, containers, guards >>
    /\ RunUpdateStack
    /\ UNCHANGED jobVars

\* One of the properties the provider reads changes; no handler of the
\* provider has run on the new inputs yet
SetProperties ==
    /\ \/ /\ \E count \in ExtruderCounts \ {machine_extruder_count} :
               machine_extruder_count' = count
          /\ UNCHANGED << settable_per_extruder, limit_to_extruder, extruder_stacks,
                          active_extruder >>
       \/ /\ _key # ""
          /\ settable_per_extruder' = ~settable_per_extruder
          /\ UNCHANGED << machine_extruder_count, limit_to_extruder, extruder_stacks,
                          active_extruder >>
       \/ /\ _key # ""
          /\ \E limit \in Limits \ {limit_to_extruder} : limit_to_extruder' = limit
          /\ UNCHANGED << machine_extruder_count, settable_per_extruder, extruder_stacks,
                          active_extruder >>
       \/ /\ \E nstacks \in (1..MaxExtruders) \ {extruder_stacks} :
               /\ extruder_stacks' = nstacks
               /\ active_extruder' = IF active_extruder < nstacks THEN active_extruder ELSE 0
          /\ UNCHANGED << machine_extruder_count, settable_per_extruder, limit_to_extruder >>
    /\ branch' = "none"
    /\ raised' = ""
    /\ recomputed' = FALSE
    /\ UNCHANGED << app_global_stack, containers, guards, _key,
                    _global_container_stack, connections, _stack_id,
                    _should_show_inherit, provider_log >>
    /\ UNCHANGED jobVars

\* A value, its state or its enabled property changes in some stack
EditContainers ==
    /\ \/ /\ \E conts \in ProviderContainers \ {containers} : containers' = conts
          /\ UNCHANGED guards
       \/ /\ \E grd \in ProviderGuards \ {guards} : guards' = grd
          /\ UNCHANGED containers
    /\ raised' = ""
    /\ recomputed' = FALSE
    /\ UNCHANGED << app_global_stack, machine_extruder_count, settable_per_extruder,
                    limit_to_extruder, extruder_stacks, active_extruder, _key,
                    _global_container_stack, connections, _stack_id,
                    _should_show_inherit, branch, provider_log >>
    /\ UNCHANGED jobVars

\* The property sets a propertiesChanged notification carries
PropertySets == { {"value"}, {"limit_to_extruder"}, {"value", "limit_to_extruder"},
                  {"enabled"} }

\* A handler that does not compare the notified key with its own
OnLimitToExtruderChangedAnyKey(p, key, property_names) ==
    LET p0 == [p EXCEPT !.raised = "", !.recomputed = FALSE]
        p1 == IF "limit_to_extruder" \in property_names
              THEN _updateStack(p0, _key, app_global_stack, machine_extruder_count,
                                settable_per_extruder, limit_to_extruder,
                                extruder_stacks, active_extruder, containers, guards)
              ELSE p0
    IN  IF p1.raised # "" THEN p1
        ELSE IF "value" \in property_names
        THEN _updateShouldShowInherit(p1, containers, guards)
        ELSE p1

\* _onLimitToExtruderChanged(key, property_names)
OnLimitToExtruderChanged(p, key, property_names) ==
    IF key # _key THEN p
    ELSE LET p0 == [p EXCEPT !.raised = "", !.recomputed = FALSE]
             p1 == IF "limit_to_extruder" \in property_names
                   THEN _updateStack(p0, _key, app_global_stack, machine_extruder_count,
                                     settable_per_extruder, limit_to_extruder,
                                     extruder_stacks, active_extruder, containers, guards)
                   ELSE p0
         IN  IF p1.raised # "" THEN p1
             ELSE IF "value" \in property_names
             THEN _updateShouldShowInherit(p1, containers, guards)
             ELSE p1

\* A stack the provider is subscribed to emits propertiesChanged
_onLimitToExtruderChanged ==
    /\ \E s \in GlobalStackIds : connections[s] > 0
    /\ \E key \in Keys, property_names \in PropertySets :
         Becomes(OnLimitToExtruderChanged(Provider, key, property_names))
    /\ UNCHANGED envVars
    /\ UNCHANGED jobVars

\* _onPropertiesChanged(key, property_names): the target stack emits
\* propertiesChanged
_onPropertiesChanged ==
    /\ _stack_id # ""
    /\ Becomes(_updateShouldShowInherit([Provider EXCEPT !.raised = "", !.recomputed = FALSE],
                                        containers, guards))
    /\ UNCHANGED envVars
    /\ UNCHANGED jobVars

NextProvider ==
    \/ GlobalContainerStackChanged
    \/ ActiveExtruderChanged
    \/ KeyChanged
    \/ SetProperties
    \/ EditContainers
    \/ _onLimitToExtruderChanged
    \/ _onPropertiesChanged

(***************************************************************************)
(* _determineInherit on every arrangement of containers                    *)
(***************************************************************************)
\* The sequences of at most n container kinds
RECURSIVE KindSeqs(_)
KindSeqs(n) ==
    IF n = 0 THEN {<< >>}
    ELSE LET shorter == KindSeqs(n - 1)
         IN  shorter \cup { Append(q, k) : q \in {t \in shorter : Len(t) = n - 1},
                                           k \in ContainerKinds }

\* One container in the global stack, up to MaxContainers in every extruder
\* stack
InheritContainers ==
    { [s \in StackIds |-> IF s = "global" THEN <<a>> ELSE b] :
        a \in ContainerKinds, b \in KindSeqs(MaxContainers) \ {<< >>} }

InheritGuards ==
    { Guards(r, st, e) : r \in BOOLEAN, st \in InstanceStates, e \in BOOLEAN }

\* The provider after a pass that set the target to the global stack (one
\* extruder) or to the stack of extruder 0, with the containers edited
\* since
InitInherit ==
    /\ app_global_stack = "g1"
    /\ _key = "k1"
    /\ machine_extruder_count \in ExtruderCounts
    /\ settable_per_extruder = TRUE
    /\ limit_to_extruder = PyNone
    /\ extruder_stacks = 1
    /\ active_extruder = 0
    /\ containers \in InheritContainers
    /\ guards \in InheritGuards
    /\ _global_container_stack = "g1"
    /\ connections = [s \in GlobalStackIds |-> IF s = "g1" THEN 1 ELSE 0]
    /\ _stack_id = IF machine_extruder_count <= 1 THEN "global" ELSE ExtruderId(0)
    /\ _should_show_inherit \in BOOLEAN
    /\ branch = IF machine_extruder_count <= 1 THEN "single" ELSE "active"
    /\ raised = ""
    /\ recomputed = FALSE
    /\ provider_log = << >>

NextInherit ==
    \/ _onLimitToExtruderChanged
    \/ _onPropertiesChanged

(***************************************************************************)
(* Claims about CuraPropertyProvider                                       *)
(***************************************************************************)
\* A pass of _updateStack has run on the inputs as they are now, with a key
\* bound and a global stack present
Resolved == branch # "none" /\ _key # "" /\ app_global_stack # "none"

\* limit_to_extruder is a non-negative index of an extruder stack that exists
LimitExists ==
    /\ limit_to_extruder.t # "none"
    /\ int(limit_to_extruder) >= 0
    /\ int(limit_to_extruder) < extruder_stacks

\* C2: after a pass with a bound key, more than one extruder, a key that is
\* settable per extruder and limit_to_extruder the index of an existing
\* extruder, the target is that extruder's stack.
C2_LimitTarget ==
    (Resolved /\ machine_extruder_count > 1 /\ settable_per_extruder /\ LimitExists) =>
        /\ _stack_id = ExtruderId(int(limit_to_extruder))
        /\ branch = "limit"

C2_Witness ==
    /\ Resolved /\ machine_extruder_count > 1 /\ settable_per_extruder /\ LimitExists
    /\ limit_to_extruder = PyStr("1")
    /\ active_extruder = 0
    /\ _stack_id = "extruder1"

\* C3: a pass that finds no extruder stack for the limit_to_extruder index
\* records a warning and ends without an error.
C3_MissingExtruderNonFatal ==
    branch = "missing" => (raised = "" /\ provider_log # << >>)

\* C9: after a pass with a bound key and a global stack with at most one
\* extruder, the target is the global stack, whatever settable_per_extruder,
\* limit_to_extruder and the active extruder are.
C9_SingleExtruderGlobal ==
    (Resolved /\ machine_extruder_count <= 1) =>
        /\ _stack_id = "global"
        /\ branch = "single"

C9_Witness ==
    /\ Resolved /\ machine_extruder_count <= 1
    /\ settable_per_extruder
    /\ LimitExists
    /\ extruder_stacks > 1
    /\ active_extruder = 1
    /\ _stack_id = "global"

\* C10: after a pass with a bound key that is not settable per extruder the
\* target is the global stack, for every extruder count, limit_to_extruder
\* and active extruder.
C10_NotSettableGlobal ==
    (Resolved /\ ~settable_per_extruder) => _stack_id = "global"

C10_Witness ==
    /\ Resolved /\ ~settable_per_extruder
    /\ machine_extruder_count > 1
    /\ LimitExists
    /\ int(limit_to_extruder) = 1
    /\ active_extruder = 1
    /\ branch = "notsettable"
    /\ _stack_id = "global"

\* C11: after a pass with a bound key, more than one extruder, a key that is
\* settable per extruder and limit_to_extruder absent or negative, the target
\* is the stack of the extruder that is active at that moment; every
\* active-extruder, global-stack and key change runs such a pass.
C11_FollowsActiveExtruder ==
    (Resolved /\ machine_extruder_count > 1 /\ settable_per_extruder
              /\ ~LimitIsSet(limit_to_extruder)) =>
        /\ _stack_id = ExtruderId(active_extruder)
        /\ branch = "active"

C11_Witness ==
    /\ Resolved /\ machine_extruder_count > 1 /\ settable_per_extruder
    /\ limit_to_extruder = PyStr("-1")
    /\ active_extruder = 1
    /\ _stack_id = "extruder1"
    /\ branch = "active"

\* The guards of lines 111-121 pass on the target stack
GuardsPass ==
    /\ ~guards.resolve
    /\ guards.state = "User"
    /\ guards.enabled
    /\ containers[_stack_id][1] \in {"none", "lit"}

\* The containers of the target stack and of its next stacks
Walked == AllContainers(_stack_id, containers)

\* A literal, or a function that uses no setting key, lies before the first
\* function that uses one
LiteralBeforeFunction(seq) ==
    \E i \in 1..Len(seq) :
        /\ seq[i] = "fn"
        /\ \A k \in 1..(i - 1) : seq[k] # "fn"
        /\ \E j \in 1..(i - 1) : seq[j] \in {"lit", "fnenum"}

\* C12: when the guards pass, the value _determineInherit computes is true
\* exactly when the walk over the containers of the target stack and its
\* next stacks meets a literal, or a function that uses no setting key,
\* before the first function that uses one.
C12_LiteralBeforeFunction ==
    (recomputed /\ GuardsPass) => (_should_show_inherit = LiteralBeforeFunction(Walked))

C12_Witness ==
    /\ recomputed /\ GuardsPass
    /\ _stack_id = "extruder0"
    /\ containers["extruder0"] = <<"none", "lit">>
    /\ containers["global"] = <<"fn">>
    /\ _should_show_inherit

PassEvent ==
    \/ GlobalContainerStackChanged
    \/ ActiveExtruderChanged
    \/ KeyChanged

\* C14 as stated: a pass that ends in the single-extruder branch or in the
\* active-extruder branch recomputes shouldShowInherit, a pass that ends in
\* the not-settable or the limit_to_extruder branch does not.
C14_Original ==
    [][PassEvent =>
        /\ (branch' \in {"single", "active"} => recomputed')
        /\ (branch' \in {"notsettable", "limit"} => ~recomputed')]_vars

\* C14: a pass recomputes shouldShowInherit exactly when it ends in the
\* active-extruder branch, and then against the target it has just set; a
\* pass that ends in the single-extruder, the not-settable or the
\* limit_to_extruder branch leaves the stored value as it was.
C14_RecomputeOnlyActive ==
    [][PassEvent =>
        /\ recomputed' <=> (branch' = "active")
        /\ recomputed' =>
              _should_show_inherit' = _determineInherit(_stack_id', containers', guards')
        /\ ~recomputed' => _should_show_inherit' = _should_show_inherit]_vars

C14_Witness ==
    /\ branch = "single"
    /\ _stack_id = "global"
    /\ ~recomputed
    /\ _should_show_inherit
    /\ ~_determineInherit(_stack_id, containers, guards)

\* _updateStack on the inputs as they are now, from provider state p
PassFrom(p) ==
    _updateStack(p, _key, app_global_stack, machine_extruder_count,
                 settable_per_extruder, limit_to_extruder, extruder_stacks,
                 active_extruder, containers, guards)

\* limit_to_extruder is unset, negative or the index of an extruder stack
LimitResolvable == ~LimitIsSet(limit_to_extruder) \/ LimitExists

\* C15, on inputs with a bound key, a global stack and a limit_to_extruder
\* that names no missing extruder: _updateStack run from the provider's
\* present state and run from a newly constructed provider gives the same
\* target and the same shouldShowInherit.
C15_HistoryIndependent ==
    (_key # "" /\ app_global_stack # "none" /\ LimitResolvable) =>
        /\ PassFrom(Provider).stack_id = PassFrom(FreshProvider).stack_id
        /\ PassFrom(Provider).inherit = PassFrom(FreshProvider).inherit

\* The step of a propertiesChanged notification of the global stack for key
\* and property_names
Notified(key, property_names) ==
    /\ UNCHANGED envVars
    /\ \E s \in GlobalStackIds : connections[s] > 0
    /\ Becomes(OnLimitToExtruderChanged(Provider, key, property_names))

\* C17: a notification for another key leaves the target and
\* shouldShowInherit as they are; one for the bound key with
\* limit_to_extruder among the properties runs the whole resolution; one for
\* the bound key with value but without limit_to_extruder leaves the target
\* as it is and recomputes shouldShowInherit against it.
C17_NotificationEffect ==
    [][\A key \in Keys, property_names \in PropertySets :
         Notified(key, property_names) =>
            /\ key # _key => UNCHANGED << _stack_id, _should_show_inherit >>
            /\ (key = _key /\ "limit_to_extruder" \in property_names) =>
                  LET pass == PassFrom(Provider)
                  IN  /\ _stack_id' = pass.stack_id
                      /\ branch' = pass.branch
                      /\ _global_container_stack' = pass.gcs
                      /\ connections' = pass.conn
            /\ (key = _key /\ "value" \in property_names
                            /\ "limit_to_extruder" \notin property_names) =>
                  /\ UNCHANGED << _stack_id, branch, _global_container_stack, connections >>
                  /\ _stack_id # "" =>
                        /\ recomputed'
                        /\ _should_show_inherit' =
                               _determineInherit(_stack_id, containers, guards)]_vars

C17_Witness ==
    /\ branch = "limit"
    /\ _stack_id = "extruder1"
    /\ active_extruder = 0
    /\ recomputed
    /\ _should_show_inherit

\* C20: _onLimitToExtruderChanged is connected once to propertiesChanged of
\* the stack recorded in _global_container_stack and to that of no other
\* stack, so connecting a new stack has disconnected the one recorded before
\* and no stack is connected twice.
C20_OneSubscription ==
    \A s \in GlobalStackIds :
        connections[s] = IF s = _global_container_stack THEN 1 ELSE 0

C20_Witness ==
    /\ _global_container_stack = "g2"
    /\ connections["g2"] = 1
    /\ connections["g1"] = 0
    /\ app_global_stack = "g1"
    /\ _key = ""
    /\ _stack_id # ""

(***************************************************************************)
(* Specifications                                                          *)
(***************************************************************************)
\* StartSliceJob.run on every scene
InitJobSpec ==
    /\ InitJob
    /\ ProviderIdle

SpecJob == InitJobSpec /\ [][NextJob]_vars

\* StartSliceJob.run on every start and end g-code
InitGcodeSpec ==
    /\ InitGcode
    /\ ProviderIdle

SpecGcode == InitGcodeSpec /\ [][NextJob]_vars

\* The provider under every order of events
InitProviderSpec ==
    /\ InitProvider
    /\ JobIdle

SpecProvider == InitProviderSpec /\ [][NextProvider]_vars

\* _determineInherit on every arrangement of containers and guards
InitInheritSpec ==
    /\ InitInherit
    /\ JobIdle

SpecInherit == InitInheritSpec /\ [][NextInherit]_vars

Spec == SpecProvider

====
